---- MODULE Spec2Model ----
(***************************************************************************)
(* Model of json-to-mysql (src/src/main.ts, second revision, lines 125-339) *)
(* schema inference from sampled records and the SQL emitters built on it.  *)
(***************************************************************************)
EXTENDS Integers, Sequences, FiniteSets, TLC

(* ------------------------------ bounds -------------------------------- *)

\* Largest number of records handed to schema().
MaxRows == 2

\* Largest number of fields of a schema handed to createTable / insertMany.
MaxFields == 2

\* Largest number of records handed to insertMany.
MaxInsertRows == 2

(* ----------------------- JavaScript values ---------------------------- *)

\* A value is [t, len, date]: t is the runtime type, len the value of its
\* .length property (0 when it has none), date how luxon reads it
\* ("sql": DateTime.fromSQL accepts it, "iso": only DateTime.fromISO does,
\* "none": neither does).
Undefined == [t |-> "undefined", len |-> 0, date |-> "none"]
Null      == [t |-> "null",      len |-> 0, date |-> "none"]
Num       == [t |-> "number",    len |-> 0, date |-> "none"]
Bool      == [t |-> "boolean",   len |-> 0, date |-> "none"]
Obj       == [t |-> "object",    len |-> 0, date |-> "none"]
Str(n)    == [t |-> "string",    len |-> n, date |-> "none"]
Arr(n)    == [t |-> "array",     len |-> n, date |-> "none"]
DateStr(fmt) == [t |-> "string", len |-> 10, date |-> fmt]

\* typeof value
typeof(v) ==
  IF v.t \in {"string", "number", "boolean", "undefined"} THEN v.t ELSE "object"

\* value == null  (true of null and of undefined)
isNullish(v) == v.t \in {"null", "undefined"}

\* A record (row) is a sequence of key/value pairs with distinct keys, in the
\* object's own key order.
KV(k, v) == [k |-> k, v |-> v]

\* Object.keys(row)
Keys(row) == [i \in 1..Len(row) |-> row[i].k]

\* row[key]: undefined when the key is absent
Get(row, key) ==
  IF \E i \in 1..Len(row) : row[i].k = key
    THEN row[CHOOSE i \in 1..Len(row) : row[i].k = key].v
    ELSE Undefined

(* --------------------------- array helpers ---------------------------- *)

Min(a, b) == IF a < b THEN a ELSE b

Range(s) == {s[i] : i \in 1..Len(s)}

\* array.slice(0, n) for n >= 0
Slice(s, n) == SubSeq(s, 1, Min(n, Len(s)))

\* rows.flatMap(f): the concatenation of f over the rows
RECURSIVE FlatKeys(_)
FlatKeys(rs) ==
  IF rs = <<>> THEN <<>> ELSE Keys(Head(rs)) \o FlatKeys(Tail(rs))

\* [...new Set(s)]: the elements of s in order of first insertion
RECURSIVE Uniq(_)
Uniq(s) ==
  IF s = <<>> THEN <<>>
  ELSE LET front == Uniq(SubSeq(s, 1, Len(s) - 1))
           last  == s[Len(s)]
       IN  IF last \in Range(front) THEN front ELSE Append(front, last)

\* Math.max(...xs); -1 stands for -Infinity of the empty argument list
RECURSIVE MaxOf(_)
MaxOf(xs) ==
  IF xs = <<>> THEN -1
  ELSE LET m == MaxOf(Tail(xs)) IN IF Head(xs) > m THEN Head(xs) ELSE m

\* Destructuring swap of positions i and j (1-based)
Swap(s, i, j) ==
  [k \in 1..Len(s) |-> IF k = i THEN s[j] ELSE IF k = j THEN s[i] ELSE s[k]]

(* ------------------------- schema inference --------------------------- *)

\* The threshold of hasLongText and the width of the default VARCHAR.
VarcharLimit == 255

Kind(k)    == [kind |-> k, n |-> 0]
VarChar(n) == [kind |-> "VARCHAR", n |-> n]
DATETIME   == Kind("DATETIME")
DATE       == Kind("DATE")
TEXT       == Kind("TEXT")
INT        == Kind("INT")
BOOLEAN_   == Kind("BOOLEAN")
JSON       == Kind("JSON")

\* isNullable comparing with === null: an absent key is not seen
isNullableStrict(key, rs) == \E i \in 1..Len(rs) : Get(rs[i], key).t = "null"

\* isNullable looking at the first row only
isNullableHead(key, rs) == rs # <<>> /\ isNullish(Get(rs[1], key))

isNullable(key, rs) == \E i \in 1..Len(rs) : isNullish(Get(rs[i], key))

\* firstSample looking at the first row only
firstSampleHead(key, rs) ==
  IF rs # <<>> /\ ~isNullish(Get(rs[1], key)) THEN <<Get(rs[1], key)>> ELSE <<>>

\* Option of the first non-null value: <<>> for none, <<v>> for some(v)
firstSample(key, rs) ==
  IF \E i \in 1..Len(rs) : ~isNullish(Get(rs[i], key))
    THEN LET j == CHOOSE i \in 1..Len(rs) :
                    /\ ~isNullish(Get(rs[i], key))
                    /\ \A h \in 1..(i - 1) : isNullish(Get(rs[h], key))
         IN  <<Get(rs[j], key)>>
    ELSE <<>>

\* row[key]?.length ?? 0
lengthOf(v) == IF v.t \in {"string", "array"} THEN v.len ELSE 0

maxLength(key, rs) == MaxOf([i \in 1..Len(rs) |-> lengthOf(Get(rs[i], key))])

\* hasLongText with >= for >
hasLongTextInclusive(key, rs) == maxLength(key, rs) >= VarcharLimit

hasLongText(key, rs) == maxLength(key, rs) > VarcharLimit

\* mysqlType testing dateFields before timeFields
mysqlTypeDateFirst(timeFields, dateFields, key, value) ==
  IF key \in dateFields THEN DATE
  ELSE IF key \in timeFields THEN DATETIME
  ELSE IF typeof(value) = "string" THEN VarChar(VarcharLimit)
  ELSE IF typeof(value) = "number" THEN INT
  ELSE IF typeof(value) = "boolean" THEN BOOLEAN_
  ELSE JSON

mysqlType(timeFields, dateFields, key, value) ==
  IF key \in timeFields THEN DATETIME
  ELSE IF key \in dateFields THEN DATE
  ELSE IF typeof(value) = "string" THEN VarChar(VarcharLimit)
  ELSE IF typeof(value) = "number" THEN INT
  ELSE IF typeof(value) = "boolean" THEN BOOLEAN_
  ELSE JSON

\* the filter letting every type through
keepTypeAlways(type, allowJson) == TRUE

\* O.filter((type) => type !== "JSON" || allowJson)
keepType(type, allowJson) == type # JSON \/ allowJson

\* The long-text promotion of a resolved type
promote(type, name, rs, setVarCharMaxLen) ==
  IF type = VarChar(VarcharLimit)
    THEN IF hasLongText(name, rs) THEN TEXT
         ELSE IF setVarCharMaxLen THEN VarChar(maxLength(name, rs))
         ELSE type
    ELSE type


(* ------------------------------ state --------------------------------- *)

VARIABLES
  rows,         \* the caller's record array (SchemaOpts.rows)
  opts,         \* the other options: samples, timeFields, dateFields,
                \* allowJson, setVarCharMaxLen
  array,        \* shuffle: the copy being permuted
  currentIndex, \* shuffle: the loop counter
  sampleSlice,  \* schema: the sampled records
  columns,      \* schema: the discovered column names
  colIdx,       \* schema: position of columns.flatMap (1-based)
  types,        \* schema: the resolved type of each retained field, before
                \* the long-text promotion (the type of line 242)
  fields,       \* schema: the fields built so far / returned
  error,        \* the exception the call ended with, "none" if it returned
  pc,           \* where the call in progress stands
  sch,          \* emitter: the Schema argument
  irows,        \* emitter: the records handed to insertMany
  created,      \* emitter: Option of the CREATE TABLE statement returned
  values,       \* insertMany: the value tuples rendered so far
  inserted      \* emitter: Option of the INSERT statement returned

inferVars == <<rows, opts, array, currentIndex, sampleSlice, columns, colIdx,
               types, fields, error>>
emitVars  == <<sch, irows, created, values, inserted>>
vars      == <<rows, opts, array, currentIndex, sampleSlice, columns, colIdx,
               types, fields, error, pc, sch, irows, created, values, inserted>>

\* All sequences over S of length at most n
SeqsUpTo(S, n) == UNION {[1..k -> S] : k \in 0..n}

(* ------------------------- inputs of schema() ------------------------- *)

\* The records the collections are drawn from: two field names in both key
\* orders, absent and null values, every runtime type, and text and array
\* lengths on both sides of the VARCHAR limit.
RecordPool ==
  { <<KV("id", Num), KV("note", Str(1))>>,
    <<KV("note", Str(VarcharLimit + 1)), KV("id", Null)>>,
    <<KV("note", Obj)>>,
    <<KV("id", Bool), KV("note", Null)>>,
    <<KV("note", Arr(VarcharLimit + 1)), KV("id", Num)>>,
    <<KV("note", Str(VarcharLimit))>>,
    <<KV("id", Str(1)), KV("note", Num)>>,
    <<>> }

FieldNames == {"id", "note"}

OptsSpace ==
  [ samples          : 1..MaxRows,
    timeFields       : {{}, {"note"}},
    dateFields       : {{}, {"note"}},
    allowJson        : BOOLEAN,
    setVarCharMaxLen : BOOLEAN ]

NoSchema == [name |-> "", timeZone |-> "", fields |-> <<>>]

Init ==
  /\ rows \in SeqsUpTo(RecordPool, MaxRows)
  /\ opts \in OptsSpace
  /\ array = <<>>
  /\ currentIndex = 0
  /\ sampleSlice = <<>>
  /\ columns = <<>>
  /\ colIdx = 1
  /\ types = <<>>
  /\ fields = <<>>
  /\ error = "none"
  /\ pc = "schema"
  /\ sch = NoSchema
  /\ irows = <<>>
  /\ created = <<>>
  /\ values = <<>>
  /\ inserted = <<>>

(* ------------------------- actions of schema() ------------------------ *)

\* shuffle, lines 180-183: copy the input and start the loop at its end
ShuffleCopy ==
  /\ pc = "schema"
  /\ array' = rows
  /\ currentIndex' = Len(rows)
  /\ pc' = "shuffle"
  /\ UNCHANGED <<rows, opts, sampleSlice, columns, colIdx, types, fields, error>>
  /\ UNCHANGED emitVars

\* shuffle, lines 186-196: one iteration of the Fisher-Yates loop;
\* Math.floor(Math.random() * currentIndex) is any index below currentIndex
ShuffleStep ==
  /\ pc = "shuffle"
  /\ currentIndex # 0
  /\ \E randomIndex \in 0..(currentIndex - 1) :
       /\ currentIndex' = currentIndex - 1
       /\ array' = Swap(array, currentIndex' + 1, randomIndex + 1)
  /\ UNCHANGED <<rows, opts, sampleSlice, columns, colIdx, types, fields, error, pc>>
  /\ UNCHANGED emitVars

\* the columns without the Set: a key is listed once per record holding it
columnsAll(rs) == FlatKeys(rs)

\* Object.keys of the sampled rows, de-duplicated in insertion order
columnsOf(rs) == Uniq(FlatKeys(rs))

\* the columns read off the first sampled row, as the first revision does
\* (Object.keys(rows[0]), which throws a TypeError when there is no row)
SampleFirstRow ==
  /\ pc = "shuffle"
  /\ currentIndex = 0
  /\ sampleSlice' = Slice(array, opts.samples)
  /\ IF sampleSlice' = <<>>
       THEN /\ error' = "TypeError"
            /\ pc' = "done"
            /\ UNCHANGED columns
       ELSE /\ columns' = Keys(sampleSlice'[1])
            /\ pc' = "fields"
            /\ UNCHANGED error
  /\ colIdx' = 1
  /\ UNCHANGED <<rows, opts, array, currentIndex, types, fields>>
  /\ UNCHANGED emitVars

\* lines 232-233: the loop is over; take the sample and discover the columns
Sample ==
  /\ pc = "shuffle"
  /\ currentIndex = 0
  /\ sampleSlice' = Slice(array, opts.samples)
  /\ columns' = columnsOf(sampleSlice')
  /\ colIdx' = 1
  /\ pc' = "fields"
  /\ UNCHANGED <<rows, opts, array, currentIndex, types, fields, error>>
  /\ UNCHANGED emitVars

\* The resolved type of a column: Option of the type that passed the filter
resolve(name, sample, o) ==
  LET first == firstSample(name, sample)
  IN  IF first = <<>> THEN <<>>
      ELSE LET type == mysqlType(o.timeFields, o.dateFields, name, first[1])
           IN  IF keepType(type, o.allowJson) THEN <<type>> ELSE <<>>

\* The callback of columns.flatMap: no field or one field
fieldOf(name, sample, rs, o) ==
  LET type == resolve(name, sample, o)
  IN  IF type = <<>> THEN <<>>
      ELSE << [ name     |-> name,
                kind     |-> promote(type[1], name, rs, o.setVarCharMaxLen),
                nullable |-> isNullable(name, sample) ] >>

\* lines 236-265: the flatMap callback on the next column
Field ==
  /\ pc = "fields"
  /\ colIdx <= Len(columns)
  /\ LET name == columns[colIdx]
     IN  /\ fields' = fields \o fieldOf(name, sampleSlice, rows, opts)
         /\ types' = types \o resolve(name, sampleSlice, opts)
  /\ colIdx' = colIdx + 1
  /\ UNCHANGED <<rows, opts, array, currentIndex, sampleSlice, columns, error, pc>>
  /\ UNCHANGED emitVars

\* line 267: every column is done; return the schema
Return ==
  /\ pc = "fields"
  /\ colIdx > Len(columns)
  /\ pc' = "done"
  /\ UNCHANGED inferVars
  /\ UNCHANGED emitVars

Next == ShuffleCopy \/ ShuffleStep \/ Sample \/ Field \/ Return

Spec == Init /\ [][Next]_vars


(* --------------------- properties of schema() ------------------------- *)

Done == pc = "done"

\* The names of the returned fields
FieldNameSet == {fields[i].name : i \in 1..Len(fields)}

\* The field is present and non-null in some sampled record
NonNullInSample(name) ==
  \E i \in 1..Len(sampleSlice) : Get(sampleSlice[i], name).t \notin {"null", "undefined"}

\* The value of the field in the first sampled record that has it non-null
FirstNonNull(name) ==
  LET i == CHOOSE j \in 1..Len(sampleSlice) :
             /\ Get(sampleSlice[j], name).t \notin {"null", "undefined"}
             /\ \A h \in 1..(j - 1) : Get(sampleSlice[h], name).t \in {"null", "undefined"}
  IN  Get(sampleSlice[i], name)

\* The field's first non-null sampled value resolves to JSON
ResolvesJson(name) ==
  /\ NonNullInSample(name)
  /\ name \notin (opts.timeFields \cup opts.dateFields)
  /\ FirstNonNull(name).t \notin {"string", "number", "boolean"}

\* C1 (as stated): schema raises InputEmptyError exactly when the record
\* collection is empty.
C1_RaisesIffEmpty ==
  Done => (error = "InputEmptyError" <=> rows = <<>>)

\* C1 (amended): schema never raises, whether the collection is empty or not;
\* for an empty collection it returns a schema with no fields.
C1_NeverRaises ==
  Done => /\ error = "none"
          /\ (rows = <<>> => fields = <<>>)

C1_Witness == Done /\ rows = <<>> /\ error = "none" /\ fields = <<>>

\* C2 (as stated): every field that is non-null in some sampled record is in
\* the schema, whatever the configuration.
C2_NonNullAlwaysKept ==
  Done => \A name \in FieldNames : NonNullInSample(name) => name \in FieldNameSet

\* C2 (amended): every field that is non-null in some sampled record is in
\* the schema, unless allowJson is false and the field resolves to JSON.
C2_NonNullKeptUnlessJson ==
  Done => \A name \in FieldNames :
            NonNullInSample(name) =>
              \/ name \in FieldNameSet
              \/ (~opts.allowJson /\ ResolvesJson(name))

\* a field kept although the first sampled record has it null or absent
C2_Witness ==
  /\ Done
  /\ \E name \in FieldNameSet :
       /\ Get(sampleSlice[1], name).t \in {"null", "undefined"}
       /\ NonNullInSample(name)

\* The precedence of C3, spelled out on the name and the first non-null value
ExpectedType(name, v) ==
  CASE name \in opts.timeFields -> [kind |-> "DATETIME", n |-> 0]
    [] name \notin opts.timeFields /\ name \in opts.dateFields
         -> [kind |-> "DATE", n |-> 0]
    [] name \notin (opts.timeFields \cup opts.dateFields) /\ v.t = "string"
         -> [kind |-> "VARCHAR", n |-> 255]
    [] name \notin (opts.timeFields \cup opts.dateFields) /\ v.t = "number"
         -> [kind |-> "INT", n |-> 0]
    [] name \notin (opts.timeFields \cup opts.dateFields) /\ v.t = "boolean"
         -> [kind |-> "BOOLEAN", n |-> 0]
    [] OTHER -> [kind |-> "JSON", n |-> 0]

\* C3: the kind of every retained field before long-text promotion follows
\* the precedence timeFields, dateFields, string, number, boolean, JSON,
\* applied to the first sampled record whose value for the field is non-null.
C3_TypePrecedence ==
  Done => /\ Len(types) = Len(fields)
          /\ \A i \in 1..Len(fields) :
               /\ NonNullInSample(fields[i].name)
               /\ types[i] = ExpectedType(fields[i].name, FirstNonNull(fields[i].name))

\* a name configured as both time and date field, holding a non-string value
C3_Witness ==
  /\ Done
  /\ \E i \in 1..Len(fields) :
       /\ fields[i].name \in (opts.timeFields \cap opts.dateFields)
       /\ types[i].kind = "DATETIME"
       /\ FirstNonNull(fields[i].name).t = "number"

\* The names the schema must not hold
Dropped(name) ==
  \/ ~NonNullInSample(name)
  \/ (ResolvesJson(name) /\ ~opts.allowJson)

\* C4: a field that is null or absent in every sampled record, or that
\* resolves to JSON while allowJson is false, is absent from the schema; no
\* error is raised and every other sampled field is still there.
C4_DroppedFields ==
  Done => /\ error = "none"
          /\ \A name \in FieldNames : Dropped(name) => name \notin FieldNameSet
          /\ FieldNameSet = {name \in FieldNames : ~Dropped(name)}

\* a JSON field dropped next to a field that is kept
C4_Witness ==
  /\ Done
  /\ ~opts.allowJson
  /\ \E name \in FieldNames : ResolvesJson(name) /\ name \notin FieldNameSet
  /\ Len(fields) = 1

\* C5: nullable is true iff some record of the sample (the first samples
\* records of the shuffled collection) has the field absent, null or undefined.
C5_NullableIffSampledNull ==
  Done => /\ Len(sampleSlice) = Min(opts.samples, Len(array))
          /\ \A j \in 1..Len(sampleSlice) : sampleSlice[j] = array[j]
          /\ \A i \in 1..Len(fields) :
               fields[i].nullable <=>
                 \E j \in 1..Len(sampleSlice) :
                   Get(sampleSlice[j], fields[i].name).t \in {"null", "undefined"}

\* a field that is NOT NULL by the sample although a record outside it is null
C5_Witness ==
  /\ Done
  /\ Len(sampleSlice) < Len(rows)
  /\ \E i \in 1..Len(fields) :
       /\ ~fields[i].nullable
       /\ \E j \in 1..Len(rows) : Get(rows[j], fields[i].name).t \in {"null", "undefined"}

\* The first sampled record that has the key, and the key's place in it
FirstRowWith(name) ==
  CHOOSE r \in 1..Len(sampleSlice) :
    /\ \E k \in 1..Len(sampleSlice[r]) : sampleSlice[r][k].k = name
    /\ \A h \in 1..(r - 1) : \A k \in 1..Len(sampleSlice[h]) : sampleSlice[h][k].k # name
PlaceIn(row, name) == CHOOSE k \in 1..Len(row) : row[k].k = name
AppearsBefore(a, b) ==
  LET ra == FirstRowWith(a)
      rb == FirstRowWith(b)
  IN  \/ ra < rb
      \/ (ra = rb /\ PlaceIn(sampleSlice[ra], a) < PlaceIn(sampleSlice[rb], b))

\* C6: the fields are in the order in which their names first appear when the
\* sample is scanned record by record, key by key, and no name appears twice.
C6_FirstAppearanceOrder ==
  Done => \A i \in 1..Len(fields) : \A j \in 1..Len(fields) :
            i < j => /\ fields[i].name # fields[j].name
                     /\ AppearsBefore(fields[i].name, fields[j].name)

\* two fields in non-alphabetical order, the second record listing them the
\* other way round
C6_Witness ==
  /\ Done
  /\ Len(fields) = 2
  /\ fields[1].name = "note"
  /\ Len(sampleSlice) = 2
  /\ Keys(sampleSlice[2]) = <<"id", "note">>

\* Some record of the full collection has a value longer than the limit
LongInRows(name) == \E j \in 1..Len(rows) : Get(rows[j], name).len > 255

\* n is the largest length of the field over the full collection
IsMaxLen(name, n) ==
  /\ \E j \in 1..Len(rows) : Get(rows[j], name).len = n
  /\ \A j \in 1..Len(rows) : Get(rows[j], name).len <= n

\* C7: a field resolved to short text ends as TEXT iff some record of the full
\* collection has a value longer than 255 for it; otherwise as VARCHAR(255),
\* or VARCHAR(n), n the longest length in the full collection, under
\* setVarCharMaxLen.
C7_LongTextPromotion ==
  Done => \A i \in 1..Len(fields) :
            types[i] = [kind |-> "VARCHAR", n |-> 255] =>
              /\ (fields[i].kind.kind = "TEXT") <=> LongInRows(fields[i].name)
              /\ ~LongInRows(fields[i].name) =>
                   /\ fields[i].kind.kind = "VARCHAR"
                   /\ IF opts.setVarCharMaxLen
                        THEN IsMaxLen(fields[i].name, fields[i].kind.n)
                        ELSE fields[i].kind.n = 255

\* promoted to TEXT by a record outside the sample
C7_Witness ==
  /\ Done
  /\ \E i \in 1..Len(fields) :
       /\ types[i].kind = "VARCHAR"
       /\ fields[i].kind.kind = "TEXT"
       /\ \A j \in 1..Len(sampleSlice) : Get(sampleSlice[j], fields[i].name).len <= 255


\* The fields schema() returns when the shuffle leaves the records in the
\* order shuffled
RECURSIVE fieldsFrom(_, _, _, _)
fieldsFrom(cols, sample, rs, o) ==
  IF cols = <<>> THEN <<>>
  ELSE fieldOf(Head(cols), sample, rs, o) \o fieldsFrom(Tail(cols), sample, rs, o)
fieldsFor(shuffled, rs, o) ==
  LET sample == Slice(shuffled, o.samples)
  IN  fieldsFrom(columnsOf(sample), sample, rs, o)

\* Every order the shuffle can leave the records in
Orderings(rs) ==
  { [i \in 1..Len(rs) |-> rs[f[i]]] :
      f \in {g \in [1..Len(rs) -> 1..Len(rs)] :
               \A a \in 1..Len(rs) : \A b \in 1..Len(rs) : g[a] = g[b] => a = b} }

\* All non-null values of a field have the same runtime type
SameRuntimeTypes ==
  \A name \in FieldNames : \A i \in 1..Len(rows) : \A j \in 1..Len(rows) :
    LET a == Get(rows[i], name)
        b == Get(rows[j], name)
    IN  (a.t \notin {"null", "undefined"} /\ b.t \notin {"null", "undefined"})
          => typeof(a) = typeof(b)

C10_SameFieldSet ==
  (Done /\ opts.samples >= Len(rows) /\ SameRuntimeTypes) =>
    \A p \in Orderings(rows) : Range(fieldsFor(p, rows, opts)) = Range(fields)

\* C10: when samples covers the whole collection and every field has one
\* runtime type, every permutation the shuffle can produce gives the same set
\* of (name, kind, nullable) fields; and schema never changes the input array.
C10_PermutationIndependent ==
  /\ []C10_SameFieldSet
  /\ [][rows' = rows]_vars

\* the shuffle did permute the records, and the fields came out in another
\* order than the input order gives
C10_Witness ==
  /\ Done
  /\ opts.samples >= Len(rows)
  /\ SameRuntimeTypes
  /\ array # rows
  /\ Len(fields) = 2
  /\ fields # fieldsFor(rows, rows, opts)
  /\ Range(fields) = Range(fieldsFor(rows, rows, opts))


(* ---------------------------- SQL emitter ----------------------------- *)

\* The quote of an SQL identifier (the backquote, which a string of this
\* module cannot hold, written as an apostrophe)
Tick == "'"

\* Sql.escapeId of a name holding neither a quote nor a dot
escapeId(name) == Tick \o name \o Tick

\* Sql.escape: the comma-separated items the value is rendered as. null and
\* undefined give NULL, a scalar gives one literal, an array gives one item
\* per element, a plain object gives its key = value assignment.
Item(sql, v) == [sql |-> sql, of |-> v]
escape(v) ==
  IF isNullish(v) THEN <<Item("NULL", v)>>
  ELSE IF v.t = "array" THEN [i \in 1..v.len |-> Item("element", v)]
  ELSE IF v.t = "object" THEN <<Item("assignment", v)>>
  ELSE <<Item("literal", v)>>

\* The text of a SchemaKind
kindText(k) ==
  IF k.kind = "VARCHAR" THEN "VARCHAR(" \o ToString(k.n) \o ")" ELSE k.kind

\* createTable looking for the id at the head of the fields only
hasIDHead(fs) == fs # <<>> /\ fs[1].name = "id"

\* fields.some((f) => f.name === "id")
hasID(fs) == \E i \in 1..Len(fs) : fs[i].name = "id"

\* Sql.format of "?? kind" or "?? kind NOT NULL" with [f.name], as the words
\* of the clause
columnClause(f) ==
  <<escapeId(f.name), kindText(f.kind)>> \o
    (IF f.nullable THEN <<>> ELSE <<"NOT NULL">>)

createTable(schema) ==
  [ table   |-> escapeId(schema.name),
    clauses |-> [i \in 1..Len(schema.fields) |-> columnClause(schema.fields[i])]
                  \o (IF hasID(schema.fields) THEN <<<<"PRIMARY KEY (id)">>>> ELSE <<>>) ]

\* parseDateTime: Option of a DateTime, "valid" or "invalid". The fromSQL
\* result is kept when valid; otherwise fromISO's result is taken as it is.
parseDateTime(s) ==
  IF s.date = "sql" THEN <<"valid">>
  ELSE <<IF s.date = "iso" THEN "valid" ELSE "invalid">>

\* O.map((d) => d.toSQL()) and O.map((d) => d.toSQLDate()) over
\* the Option; toSQL and toSQLDate give null for an invalid DateTime
toSQL(d) == IF d = "valid" THEN DateStr("sql") ELSE Null

toSQLDate(d) == IF d = "valid" THEN DateStr("sql") ELSE Null

\* O.toNullable
toNullable(o) == IF o = <<>> THEN Null ELSE o[1]

\* JSON.stringify: undefined for undefined, a text otherwise
stringify(v) == IF v.t = "undefined" THEN Undefined ELSE Str(4)

valueForRow(schema, row, field) ==
  LET value == Get(row, field.name)
  IN  IF field.kind = DATETIME
        THEN toNullable([i \in 1..Len(parseDateTime(value)) |-> toSQL(parseDateTime(value)[i])])
      ELSE IF field.kind = DATE
        THEN toNullable([i \in 1..Len(parseDateTime(value)) |-> toSQLDate(parseDateTime(value)[i])])
      ELSE IF field.kind = JSON THEN stringify(value)
      ELSE value

\* Sql.format of the placeholders with the values: every ? replaced by the escaped
\* value, so the tuple is the items of all the values one after another
RECURSIVE formatTuple(_)
formatTuple(vs) ==
  IF vs = <<>> THEN <<>> ELSE escape(Head(vs)) \o formatTuple(Tail(vs))

valuesForRow(schema, row) ==
  formatTuple([i \in 1..Len(schema.fields) |-> valueForRow(schema, row, schema.fields[i])])

(* ------------------------ inputs of the emitter ----------------------- *)

SchemaField(name, kind, nullable) ==
  [name |-> name, kind |-> kind, nullable |-> nullable]

FieldPool ==
  { SchemaField("id", INT, FALSE),
    SchemaField("id", VarChar(VarcharLimit), TRUE),
    SchemaField("note", DATETIME, TRUE),
    SchemaField("note", DATE, FALSE),
    SchemaField("note", JSON, TRUE),
    SchemaField("note", TEXT, FALSE) }

InsertPool ==
  { <<KV("id", Num), KV("note", DateStr("sql"))>>,
    <<KV("note", DateStr("iso")), KV("extra", Str(7))>>,
    <<KV("id", Null), KV("note", Str(1))>>,
    <<KV("id", Arr(2)), KV("note", Obj)>>,
    <<>> }

InitEmit ==
  /\ sch \in { [name |-> "t", timeZone |-> "UTC", fields |-> fs] :
                 fs \in SeqsUpTo(FieldPool, MaxFields) }
  /\ irows \in SeqsUpTo(InsertPool, MaxInsertRows)
  /\ created = <<>>
  /\ values = <<>>
  /\ inserted = <<>>
  /\ pc = "emit"
  /\ rows = <<>>
  /\ opts = [samples |-> 1, timeFields |-> {}, dateFields |-> {},
             allowJson |-> FALSE, setVarCharMaxLen |-> FALSE]
  /\ array = <<>>
  /\ currentIndex = 0
  /\ sampleSlice = <<>>
  /\ columns = <<>>
  /\ colIdx = 1
  /\ types = <<>>
  /\ fields = <<>>
  /\ error = "none"

(* ----------------------- actions of the emitter ----------------------- *)

\* createTable, lines 270-286
CreateTable ==
  /\ pc = "emit"
  /\ created = <<>>
  /\ created' = <<createTable(sch)>>
  /\ UNCHANGED <<sch, irows, values, inserted, pc>>
  /\ UNCHANGED inferVars

\* insertMany, line 320: the rows.map callback on the next record
InsertValues ==
  /\ pc \in {"emit", "values"}
  /\ inserted = <<>>
  /\ Len(values) < Len(irows)
  /\ values' = Append(values, valuesForRow(sch, irows[Len(values) + 1]))
  /\ pc' = "values"
  /\ UNCHANGED <<sch, irows, created, inserted>>
  /\ UNCHANGED inferVars

\* insertMany, lines 319 and 322-327: every record is rendered; format the
\* statement
InsertFormat ==
  /\ pc \in {"emit", "values"}
  /\ inserted = <<>>
  /\ Len(values) = Len(irows)
  /\ inserted' = << [ table   |-> escapeId(sch.name),
                      columns |-> [i \in 1..Len(sch.fields) |-> escapeId(sch.fields[i].name)],
                      tuples  |-> values ] >>
  /\ pc' = "emit"
  /\ UNCHANGED <<sch, irows, created, values>>
  /\ UNCHANGED inferVars

NextEmit == CreateTable \/ InsertValues \/ InsertFormat

SpecEmit == InitEmit /\ [][NextEmit]_vars


(* ------------------- properties of the emitter ------------------------ *)

PrimaryKey == <<"PRIMARY KEY (id)">>

\* C8: createTable emits one column clause per schema field, in field order,
\* with NOT NULL exactly when the field is not nullable, and one trailing
\* PRIMARY KEY (id) clause iff the schema has a field named id.
C8_CreateTableClauses ==
  created # <<>> =>
    LET cl    == created[1].clauses
        fs    == sch.fields
        idIn  == \E i \in 1..Len(fs) : fs[i].name = "id"
    IN  /\ Len(cl) = Len(fs) + (IF idIn THEN 1 ELSE 0)
        /\ \A i \in 1..Len(fs) :
             /\ cl[i][1] = Tick \o fs[i].name \o Tick
             /\ cl[i][2] = kindText(fs[i].kind)
             /\ Len(cl[i]) = (IF fs[i].nullable THEN 2 ELSE 3)
             /\ ~fs[i].nullable => cl[i][3] = "NOT NULL"
        /\ idIn => cl[Len(cl)] = PrimaryKey
        /\ Cardinality({i \in 1..Len(cl) : cl[i] = PrimaryKey}) = (IF idIn THEN 1 ELSE 0)

\* the id is not the first field; one field is NOT NULL and one is nullable
C8_Witness ==
  /\ created # <<>>
  /\ Len(sch.fields) = 2
  /\ sch.fields[1].name = "note"
  /\ ~sch.fields[1].nullable
  /\ sch.fields[2].name = "id"
  /\ sch.fields[2].nullable
  /\ Len(created[1].clauses) = 3

\* C9: insertMany emits the schema's field names as the column list, one
\* value tuple per record in input order, one value per schema field in each
\* tuple, NULL for a field the record does not supply, and nothing for a
\* record key that is no schema field.
C9_InsertTuples ==
  inserted # <<>> =>
    LET st == inserted[1]
        fs == sch.fields
    IN  /\ st.columns = [i \in 1..Len(fs) |-> Tick \o fs[i].name \o Tick]
        /\ Len(st.tuples) = Len(irows)
        /\ \A r \in 1..Len(irows) : Len(st.tuples[r]) = Len(fs)
        /\ \A r \in 1..Len(irows) : \A i \in 1..Len(fs) :
             /\ Get(irows[r], fs[i].name).t = "undefined" => st.tuples[r][i].sql = "NULL"
             /\ st.tuples[r][i].of # Str(7)

\* No record hands an array to a field that is passed through unchanged
NoArrayPassedThrough ==
  \A r \in 1..Len(irows) : \A i \in 1..Len(sch.fields) :
    sch.fields[i].kind.kind \in {"DATETIME", "DATE", "JSON"}
      \/ Get(irows[r], sch.fields[i].name).t # "array"

\* C9 holds of the records that hand no array to a passed-through field
C9_InsertTuplesWithoutArrays ==
  NoArrayPassedThrough => C9_InsertTuples

====
